---- MODULE Spec2Model ----
(***************************************************************************)
(* Model of pkg/kernelcache/kext.go: the tagged-pointer helpers, the       *)
(* kmod_start / kmod_info readers, KextList and GetSandboxOpts.            *)
(*                                                                         *)
(* A uint64 is a tuple of four 16-bit limbs, most significant first, so    *)
(* that 64-bit masks, shifts and wrap-around additions keep their width.   *)
(***************************************************************************)
EXTENDS Integers, Sequences, FiniteSets, TLC

VARIABLES
    op,               \* the function under execution
    pc,               \* position inside that function
    m,                \* the macho.File: sections of the image and its base address
    opened,           \* macho.Open returned a file
    closeCount,       \* number of calls of m.Close
    kextStartAdddrs,  \* local of KextList (sic): result of getKextStartVMAddrs
    prelink,          \* local of KextList: prelink.PrelinkInfoDictionary
    ptrs,             \* local of getKextInfos / GetSandboxOpts: decoded pointer array
    idx,              \* position of the running range loop (0-based)
    stdout,           \* lines printed by KextList
    addrReads,        \* number of index expressions kextStartAdddrs[...] evaluated
    infos,            \* local / result of getKextInfos
    bcOpts,           \* local / result of GetSandboxOpts
    found,            \* local of GetSandboxOpts
    err,              \* error value of the finished call ("nil" when none)
    p,                \* argument of the pointer helpers
    codec             \* results of the pointer helpers

vars == <<op, pc, m, opened, closeCount, kextStartAdddrs, prelink, ptrs, idx,
          stdout, addrReads, infos, bcOpts, found, err, p, codec>>

-----------------------------------------------------------------------------
(* Bounds *)

MaxBundles == 2
MaxStartAddrs == 2
MaxModuleIndex == 2
MaxInfoPtrs == 3
MaxConstPtrs == 4

-----------------------------------------------------------------------------
(* 64-bit unsigned arithmetic on 16-bit limbs *)

Limb == 2^16

RECURSIVE BitAnd(_, _)
BitAnd(a, b) ==
    IF a = 0 \/ b = 0 THEN 0
    ELSE (a % 2) * (b % 2) + 2 * BitAnd(a \div 2, b \div 2)

RECURSIVE BitOr(_, _)
BitOr(a, b) ==
    IF a = 0 THEN b
    ELSE IF b = 0 THEN a
    ELSE (IF a % 2 = 1 \/ b % 2 = 1 THEN 1 ELSE 0) + 2 * BitOr(a \div 2, b \div 2)

And64(a, b) == <<BitAnd(a[1], b[1]), BitAnd(a[2], b[2]), BitAnd(a[3], b[3]), BitAnd(a[4], b[4])>>

Or64(a, b) == <<BitOr(a[1], b[1]), BitOr(a[2], b[2]), BitOr(a[3], b[3]), BitOr(a[4], b[4])>>

Shr48(a) == <<0, 0, 0, a[1]>>

Add64(a, b) ==
    LET s4 == a[4] + b[4]
        s3 == a[3] + b[3] + (s4 \div Limb)
        s2 == a[2] + b[2] + (s3 \div Limb)
        s1 == a[1] + b[1] + (s2 \div Limb)
    IN  <<s1 % Limb, s2 % Limb, s3 % Limb, s4 % Limb>>

Zero64 == <<0, 0, 0, 0>>

tagPtrMask == <<65535, 0, 0, 0>>

lowMask48 == <<0, 65535, 65535, 65535>>

chainTag == <<0, 0, 0, 23>>

\* variant: the tag taken after a shift by 32 bits
getTagShift32(ptr) == <<0, 0, ptr[1], ptr[2]>>

getTag(ptr) == Shr48(ptr)

\* variant: the payload mask one bit short, (1 << 47) - 1
unTagMask47(ptr) == Or64(And64(ptr, <<0, 32767, 65535, 65535>>), tagPtrMask)

unTag(ptr) == Or64(And64(ptr, lowMask48), tagPtrMask)

-----------------------------------------------------------------------------
(* The image: inputs of one call *)

SeqsUpTo(S, n) == UNION {[1..k -> S] : k \in 0..n}

NoSection == [status |-> "absent", ptrs |-> <<>>]

\* A section holding a packed array of 8-byte values: it is absent, its
\* Data() fails, binary.Read fails on it, or it decodes to an array.
ArraySections(vals, n) ==
    {[status |-> s, ptrs |-> <<>>] : s \in {"absent", "dataerr", "short"}}
        \cup {[status |-> "ok", ptrs |-> q] : q \in SeqsUpTo(vals, n)}

\* values of the kmod_start array: 0x0000000012340000, 0x000000f007004000
\* and one whose top bits are not all zero
StartAddrValues == {<<0, 0, 4660, 0>>, <<0, 240, 1792, 16384>>, <<32768, 0, 0, 1>>}

CFBundle ==
    {[ID |-> "com.example.a", Version |-> "1.0", OSKernelResource |-> k, ModuleIndex |-> i] :
        k \in BOOLEAN, i \in 0..MaxModuleIndex}
    \cup
    {[ID |-> "com.example.b", Version |-> "2.0", OSKernelResource |-> k, ModuleIndex |-> i] :
        k \in BOOLEAN, i \in 0..MaxModuleIndex}

NoInfo == [status |-> "absent", bundles |-> <<>>]

InfoSections ==
    {[status |-> s, bundles |-> <<>>] : s \in {"absent", "dataerr", "badplist"}}
        \cup {[status |-> "ok", bundles |-> b] : b \in SeqsUpTo(CFBundle, MaxBundles)}

EmptyImage ==
    [openOK |-> FALSE, kmodStart |-> NoSection, kmodInfo |-> NoSection,
     info |-> NoInfo, dconst |-> NoSection, base |-> Zero64]

KextListImages ==
    {EmptyImage} \cup
    {[EmptyImage EXCEPT !.openOK = TRUE, !.kmodStart = ks, !.info = inf] :
        ks \in ArraySections(StartAddrValues, MaxStartAddrs), inf \in InfoSections}

\* arguments of the pointer helpers: every limb over a few bit patterns
LimbValues == {0, 1, 23, 32768, 43690, 65535}

CodecArgs == {<<a, b, c, d>> : a \in LimbValues, b \in LimbValues, c \in {0, 43690, 65535}, d \in {0, 21845, 65535}}

NoCodec == [tag |-> Zero64, untag |-> Zero64, untagMasked |-> Zero64, untagTwice |-> Zero64, tagOfUntag |-> Zero64]

-----------------------------------------------------------------------------
(* getKextStartVMAddrs *)

\* variant: a missing section yields an empty array and no error
getKextStartVMAddrsLenient(mm) ==
    CASE mm.kmodStart.status = "dataerr" -> [ptrs |-> <<>>, err |-> "section data"]
      [] mm.kmodStart.status = "short" -> [ptrs |-> <<>>, err |-> "binary read"]
      [] OTHER -> [ptrs |-> mm.kmodStart.ptrs, err |-> "nil"]

getKextStartVMAddrs(mm) ==
    CASE mm.kmodStart.status = "absent" ->
            [ptrs |-> <<>>, err |-> "section __PRELINK_INFO.__kmod_start not found"]
      [] mm.kmodStart.status = "dataerr" -> [ptrs |-> <<>>, err |-> "section data"]
      [] mm.kmodStart.status = "short" -> [ptrs |-> <<>>, err |-> "binary read"]
      [] OTHER -> [ptrs |-> mm.kmodStart.ptrs, err |-> "nil"]

-----------------------------------------------------------------------------
(* KextList *)

KextLocals == <<ptrs, infos, bcOpts, found, p, codec>>

\* variant: the tag mask is applied on both branches
LoadAddressMaskAlways(bundle, addrs) ==
    IF ~bundle.OSKernelResource
    THEN Or64(addrs[bundle.ModuleIndex + 1], tagPtrMask)
    ELSE Or64(Zero64, tagPtrMask)

\* variant: the start address is printed without the tag mask
LoadAddressNoMask(bundle, addrs) ==
    IF ~bundle.OSKernelResource
    THEN addrs[bundle.ModuleIndex + 1]
    ELSE Zero64

\* The address printed for one bundle
LoadAddress(bundle, addrs) ==
    IF ~bundle.OSKernelResource
    THEN Or64(addrs[bundle.ModuleIndex + 1], tagPtrMask)
    ELSE Zero64

EntryLine(bundle, addrs) ==
    [kind |-> "entry", LoadAddress |-> LoadAddress(bundle, addrs),
     BundleID |-> bundle.ID, Version |-> bundle.Version]

FoundLine(n) == [kind |-> "found", n |-> n]

\* return from KextList after the defer of m.Close was registered
KextReturn(e) ==
    /\ pc' = "returned"
    /\ err' = e
    /\ closeCount' = closeCount + 1

\* variant: m.Close called before each return statement instead of deferred
KextPanicNoClose(e) ==
    /\ pc' = "panicked"
    /\ err' = e
    /\ closeCount' = closeCount

\* a runtime panic unwinds KextList: the deferred m.Close runs, nothing is returned
KextPanic(e) ==
    /\ pc' = "panicked"
    /\ err' = e
    /\ closeCount' = closeCount + 1

KextOpen ==
    /\ op = "KextList" /\ pc = "open"
    /\ IF m.openOK
       THEN /\ opened' = TRUE
            /\ pc' = "start"
            /\ err' = err
       ELSE /\ opened' = FALSE
            /\ pc' = "returned"
            /\ err' = "open"
    /\ UNCHANGED <<op, m, closeCount, kextStartAdddrs, prelink, idx, stdout, addrReads>>
    /\ UNCHANGED KextLocals

KextStart ==
    /\ op = "KextList" /\ pc = "start"
    /\ LET r == getKextStartVMAddrs(m)
       IN  IF r.err # "nil"
           THEN /\ KextReturn(r.err)
                /\ UNCHANGED kextStartAdddrs
           ELSE /\ kextStartAdddrs' = r.ptrs
                /\ pc' = "info"
                /\ UNCHANGED <<err, closeCount>>
    /\ UNCHANGED <<op, m, opened, prelink, idx, stdout, addrReads>>
    /\ UNCHANGED KextLocals

\* variant: a missing __info section is reported as an error
KextInfoStrict ==
    /\ op = "KextList" /\ pc = "info"
    /\ CASE m.info.status = "absent" ->
                /\ KextReturn("section __PRELINK_INFO.__info not found")
                /\ UNCHANGED <<prelink, stdout>>
         [] m.info.status = "dataerr" ->
                /\ KextReturn("section data")
                /\ UNCHANGED <<prelink, stdout>>
         [] m.info.status = "badplist" ->
                /\ KextReturn("plist decode")
                /\ UNCHANGED <<prelink, stdout>>
         [] OTHER ->
                /\ prelink' = m.info.bundles
                /\ stdout' = Append(stdout, FoundLine(Len(m.info.bundles)))
                /\ pc' = "loop"
                /\ UNCHANGED <<err, closeCount>>
    /\ UNCHANGED <<op, m, opened, kextStartAdddrs, idx, addrReads>>
    /\ UNCHANGED KextLocals

KextInfo ==
    /\ op = "KextList" /\ pc = "info"
    /\ CASE m.info.status = "absent" ->
                /\ KextReturn("nil")
                /\ UNCHANGED <<prelink, stdout>>
         [] m.info.status = "dataerr" ->
                /\ KextReturn("section data")
                /\ UNCHANGED <<prelink, stdout>>
         [] m.info.status = "badplist" ->
                /\ KextReturn("plist decode")
                /\ UNCHANGED <<prelink, stdout>>
         [] OTHER ->
                /\ prelink' = m.info.bundles
                /\ stdout' = Append(stdout, FoundLine(Len(m.info.bundles)))
                /\ pc' = "loop"
                /\ UNCHANGED <<err, closeCount>>
    /\ UNCHANGED <<op, m, opened, kextStartAdddrs, idx, addrReads>>
    /\ UNCHANGED KextLocals

KextLoop ==
    /\ op = "KextList" /\ pc = "loop"
    /\ idx < Len(prelink)
    /\ LET bundle == prelink[idx + 1]
       IN  IF ~bundle.OSKernelResource /\ bundle.ModuleIndex >= Len(kextStartAdddrs)
           THEN /\ KextPanic("index out of range")
                /\ addrReads' = addrReads + 1
                /\ UNCHANGED <<stdout, idx>>
           ELSE /\ stdout' = Append(stdout, EntryLine(bundle, kextStartAdddrs))
                /\ addrReads' = addrReads + (IF bundle.OSKernelResource THEN 0 ELSE 1)
                /\ idx' = idx + 1
                /\ UNCHANGED <<pc, err, closeCount>>
    /\ UNCHANGED <<op, m, opened, kextStartAdddrs, prelink>>
    /\ UNCHANGED KextLocals

KextDone ==
    /\ op = "KextList" /\ pc = "loop"
    /\ idx = Len(prelink)
    /\ KextReturn("nil")
    /\ UNCHANGED <<op, m, opened, kextStartAdddrs, prelink, idx, stdout, addrReads>>
    /\ UNCHANGED KextLocals

-----------------------------------------------------------------------------
(* getTag / unTag *)

Codec ==
    /\ op = "codec" /\ pc = "call"
    /\ codec' = [tag |-> getTag(p),
                 untag |-> unTag(p),
                 untagMasked |-> unTag(Or64(p, tagPtrMask)),
                 untagTwice |-> unTag(unTag(p)),
                 tagOfUntag |-> getTag(unTag(p))]
    /\ pc' = "returned"
    /\ UNCHANGED <<op, m, opened, closeCount, kextStartAdddrs, prelink, ptrs, idx,
                   stdout, addrReads, infos, bcOpts, found, err, p>>

-----------------------------------------------------------------------------
(* The Mach-O accessor: address translation, reads and C strings *)

\* m.GetOffset: three addresses lie inside a mapped segment
GetOffset(addr) ==
    CASE addr = <<65535, 0, 0, 256>> -> [off |-> 4096, err |-> "nil"]
      [] addr = <<65535, 0, 0, 512>> -> [off |-> 8192, err |-> "nil"]
      [] addr = <<65535, 0, 0, 768>> -> [off |-> 12288, err |-> "nil"]
      [] OTHER -> [off |-> 0, err |-> "address not within any segment"]

KmodA ==
    [NextAddr |-> Zero64, InfoVersion |-> 1, ID |-> 7,
     Name |-> "com.example.a", Version |-> "1.0", ReferenceCount |-> -1,
     ReferenceListAddr |-> <<23, 240, 1792, 32768>>,
     Address |-> <<23, 240, 1792, 16384>>, Size |-> <<0, 0, 1, 0>>,
     HeaderSize |-> <<0, 0, 0, 4096>>,
     StartAddr |-> <<32784, 17, 49153, 9029>>,
     StopAddr |-> <<32784, 17, 65535, 65535>>]

KmodB ==
    [NextAddr |-> <<0, 0, 0, 256>>, InfoVersion |-> 1, ID |-> 8,
     Name |-> "com.example.b", Version |-> "2.0", ReferenceCount |-> 0,
     ReferenceListAddr |-> Zero64,
     Address |-> <<0, 240, 1793, 0>>, Size |-> <<0, 0, 2, 0>>,
     HeaderSize |-> <<0, 0, 0, 8192>>,
     StartAddr |-> <<0, 0, 2, 4660>>,
     StopAddr |-> <<43690, 43690, 43690, 43690>>]

\* m.ReadAt of binary.Size(KmodInfoT) bytes decoded by binary.Read: the
\* record at 12288 runs past the end of the file
ReadAt(off) ==
    CASE off = 4096 -> [info |-> KmodA, err |-> "nil"]
      [] off = 8192 -> [info |-> KmodB, err |-> "nil"]
      [] OTHER -> [info |-> KmodA, err |-> "EOF"]

\* m.GetCString
GetCString(addr) ==
    CASE addr = <<65535, 0, 0, 16>> -> [str |-> "foo", err |-> "nil"]
      [] addr = <<65535, 0, 0, 32>> -> [str |-> "default", err |-> "nil"]
      [] addr = <<65535, 0, 0, 48>> -> [str |-> "read", err |-> "nil"]
      [] OTHER -> [str |-> "", err |-> "string not found"]

\* fixupchains.DyldChainedPtr64KernelCacheRebase.Target: the low 30 bits
Target(pointer) == And64(pointer, <<0, 0, 16383, 65535>>)

InfoPtrValues ==
    {<<0, 0, 0, 256>>, <<0, 0, 0, 512>>, <<0, 0, 0, 768>>, <<0, 0, 0, 1024>>, <<23, 0, 0, 256>>}

BaseAddresses == {Zero64, <<65535, 65520, 1792, 16384>>, <<65535, 65535, 65535, 61440>>}

KextInfosImages ==
    {[EmptyImage EXCEPT !.openOK = TRUE, !.kmodInfo = ki, !.base = b] :
        ki \in ArraySections(InfoPtrValues, MaxInfoPtrs), b \in BaseAddresses}

ConstPtrValues ==
    {Zero64} \cup {<<t, 0, 0, a>> : t \in {23, 3}, a \in {16, 32, 48, 64}}

SandboxImages ==
    {[EmptyImage EXCEPT !.openOK = TRUE, !.dconst = dc] :
        dc \in ArraySections(ConstPtrValues, MaxConstPtrs)}

-----------------------------------------------------------------------------
(* getKextInfos *)

InfosLocals == <<closeCount, kextStartAdddrs, prelink, stdout, addrReads, bcOpts, found, p, codec>>

\* variant: return infos, err
InfosFailPartial(e) ==
    /\ pc' = "returned"
    /\ err' = e
    /\ infos' = infos

\* return nil, err
InfosFail(e) ==
    /\ pc' = "returned"
    /\ err' = e
    /\ infos' = <<>>

\* variant: the fixup applied to Address as well
FixupAddress(info, base) ==
    [info EXCEPT !.StartAddr = Add64(Target(info.StartAddr), base),
                 !.StopAddr = Add64(Target(info.StopAddr), base),
                 !.Address = Add64(Target(info.Address), base)]

\* the two fixups of one decoded record
Fixup(info, base) ==
    [info EXCEPT !.StartAddr = Add64(Target(info.StartAddr), base),
                 !.StopAddr = Add64(Target(info.StopAddr), base)]

InfosStart ==
    /\ op = "getKextInfos" /\ pc = "ki_start"
    /\ CASE m.kmodInfo.status = "absent" ->
                /\ InfosFail("section __PRELINK_INFO.__kmod_start not found")
                /\ UNCHANGED ptrs
         [] m.kmodInfo.status = "dataerr" ->
                /\ InfosFail("section data")
                /\ UNCHANGED ptrs
         [] m.kmodInfo.status = "short" ->
                /\ InfosFail("binary read")
                /\ UNCHANGED ptrs
         [] OTHER ->
                /\ ptrs' = m.kmodInfo.ptrs
                /\ pc' = "ki_loop"
                /\ UNCHANGED <<err, infos>>
    /\ UNCHANGED <<op, m, opened, idx>>
    /\ UNCHANGED InfosLocals

InfosLoop ==
    /\ op = "getKextInfos" /\ pc = "ki_loop"
    /\ idx < Len(ptrs)
    /\ LET ptr == ptrs[idx + 1]
           o == GetOffset(Or64(ptr, tagPtrMask))
           r == ReadAt(o.off)
       IN  IF o.err # "nil"
           THEN /\ InfosFail(o.err)
                /\ UNCHANGED idx
           ELSE IF r.err # "nil"
           THEN /\ InfosFail(r.err)
                /\ UNCHANGED idx
           ELSE /\ infos' = Append(infos, Fixup(r.info, m.base))
                /\ idx' = idx + 1
                /\ UNCHANGED <<pc, err>>
    /\ UNCHANGED <<op, m, opened, ptrs>>
    /\ UNCHANGED InfosLocals

InfosDone ==
    /\ op = "getKextInfos" /\ pc = "ki_loop"
    /\ idx = Len(ptrs)
    /\ pc' = "returned"
    /\ err' = "nil"
    /\ UNCHANGED <<op, m, opened, ptrs, idx, infos>>
    /\ UNCHANGED InfosLocals

-----------------------------------------------------------------------------
(* GetSandboxOpts *)

SandboxLocals == <<closeCount, kextStartAdddrs, prelink, stdout, addrReads, infos, p, codec>>

SandboxStart ==
    /\ op = "GetSandboxOpts" /\ pc = "sb_start"
    /\ CASE m.dconst.status = "absent" ->
                /\ pc' = "returned"
                /\ err' = "nil"
                /\ UNCHANGED ptrs
         [] m.dconst.status = "dataerr" ->
                /\ pc' = "returned"
                /\ err' = "section data"
                /\ UNCHANGED ptrs
         [] m.dconst.status = "short" ->
                /\ pc' = "returned"
                /\ err' = "binary read"
                /\ UNCHANGED ptrs
         [] OTHER ->
                /\ ptrs' = m.dconst.ptrs
                /\ pc' = "sb_loop"
                /\ UNCHANGED err
    /\ UNCHANGED <<op, m, opened, idx, bcOpts, found>>
    /\ UNCHANGED SandboxLocals

\* one iteration of the range loop; a break leaves the loop at "sb_break"
SandboxLoop ==
    /\ op = "GetSandboxOpts" /\ pc = "sb_loop"
    /\ idx < Len(ptrs)
    /\ LET ptr == ptrs[idx + 1]
           r == GetCString(Or64(ptr, tagPtrMask))
           nowFound == found \/ r.str = "default"
       IN  IF ptr = Zero64
           THEN /\ idx' = idx + 1
                /\ UNCHANGED <<pc, bcOpts, found>>
           ELSE IF r.err # "nil"
           THEN IF found
                THEN /\ pc' = "sb_break"
                     /\ UNCHANGED <<idx, bcOpts, found>>
                ELSE /\ idx' = idx + 1
                     /\ UNCHANGED <<pc, bcOpts, found>>
           ELSE /\ found' = nowFound
                /\ IF nowFound
                   THEN /\ bcOpts' = Append(bcOpts, r.str)
                        /\ IF getTag(ptr) # chainTag
                           THEN /\ pc' = "sb_break"
                                /\ UNCHANGED idx
                           ELSE /\ idx' = idx + 1
                                /\ UNCHANGED pc
                   ELSE /\ idx' = idx + 1
                        /\ UNCHANGED <<pc, bcOpts>>
    /\ UNCHANGED <<op, m, opened, ptrs, err>>
    /\ UNCHANGED SandboxLocals

SandboxDone ==
    /\ op = "GetSandboxOpts"
    /\ \/ pc = "sb_break"
       \/ pc = "sb_loop" /\ idx = Len(ptrs)
    /\ pc' = "returned"
    /\ err' = "nil"
    /\ UNCHANGED <<op, m, opened, ptrs, idx, bcOpts, found>>
    /\ UNCHANGED SandboxLocals

-----------------------------------------------------------------------------

InitLocals ==
    /\ closeCount = 0
    /\ kextStartAdddrs = <<>>
    /\ prelink = <<>>
    /\ ptrs = <<>>
    /\ idx = 0
    /\ stdout = <<>>
    /\ addrReads = 0
    /\ infos = <<>>
    /\ bcOpts = <<>>
    /\ found = FALSE
    /\ err = "nil"
    /\ codec = NoCodec

InitKextList ==
    /\ op = "KextList" /\ pc = "open"
    /\ m \in KextListImages
    /\ opened = FALSE
    /\ p = Zero64

InitCodec ==
    /\ op = "codec" /\ pc = "call"
    /\ m = EmptyImage
    /\ opened = FALSE
    /\ p \in CodecArgs

InitKextInfos ==
    /\ op = "getKextInfos" /\ pc = "ki_start"
    /\ m \in KextInfosImages
    /\ opened = TRUE
    /\ p = Zero64

InitSandbox ==
    /\ op = "GetSandboxOpts" /\ pc = "sb_start"
    /\ m \in SandboxImages
    /\ opened = TRUE
    /\ p = Zero64

Init ==
    /\ InitLocals
    /\ \/ InitKextList
       \/ InitKextInfos
       \/ InitSandbox
       \/ InitCodec

Next ==
    \/ KextOpen
    \/ KextStart
    \/ KextInfo
    \/ KextLoop
    \/ KextDone
    \/ InfosStart
    \/ InfosLoop
    \/ InfosDone
    \/ SandboxStart
    \/ SandboxLoop
    \/ SandboxDone
    \/ Codec

Spec == Init /\ [][Next]_vars

-----------------------------------------------------------------------------
(* Properties *)

Finished == pc \in {"returned", "panicked"}

\* the catalog: the entry lines printed so far
Catalog == SelectSeq(stdout, LAMBDA l : l.kind = "entry")

\* p | 0xFFFF000000000000, limb by limb
WithTagMask(a) == <<65535, a[2], a[3], a[4]>>

KextDecoded ==
    /\ op = "KextList"
    /\ opened
    /\ m.kmodStart.status = "ok"
    /\ m.info.status = "ok"

OutOfRange(b) == ~b.OSKernelResource /\ b.ModuleIndex >= Len(m.kmodStart.ptrs)

SomeOutOfRange == \E k \in 1..Len(m.info.bundles) : OutOfRange(m.info.bundles[k])

ExpectedEntry(b) ==
    [kind |-> "entry",
     LoadAddress |-> IF b.OSKernelResource THEN Zero64
                     ELSE WithTagMask(m.kmodStart.ptrs[b.ModuleIndex + 1]),
     BundleID |-> b.ID, Version |-> b.Version]

\* C1: a listing whose bundle list holds a bundle that is not a kernel
\* resource and whose ModuleIndex is out of bounds ends with an
\* IndexOutOfRange error returned to the caller and with no catalog entry.
C1_OutOfRangeReturnsError ==
    (KextDecoded /\ SomeOutOfRange /\ Finished) =>
        /\ pc = "returned"
        /\ err = "index out of range"
        /\ Catalog = <<>>

\* C2: processing a bundle with OSKernelResource = true prints an entry with
\* LoadAddress 0 whatever its ModuleIndex, does not index the start-address
\* array and does not abort the listing.
C2_KernelResourceZero ==
    [][(op = "KextList" /\ pc = "loop" /\ idx < Len(prelink)
            /\ prelink[idx + 1].OSKernelResource) =>
        /\ stdout' = Append(stdout, [kind |-> "entry", LoadAddress |-> Zero64,
                                      BundleID |-> prelink[idx + 1].ID,
                                      Version |-> prelink[idx + 1].Version])
        /\ addrReads' = addrReads
        /\ pc' = "loop"
        /\ err' = "nil"
        /\ idx' = idx + 1]_vars

C2_Witness ==
    /\ op = "KextList" /\ pc = "loop"
    /\ idx > 0
    /\ prelink[idx].OSKernelResource
    /\ prelink[idx].ModuleIndex > 0
    /\ kextStartAdddrs = <<>>
    /\ Catalog # <<>>

\* C3: when every bundle that is not a kernel resource has its ModuleIndex in
\* bounds, the listing succeeds with exactly one entry per decoded bundle, in
\* decode order, and the entry of a bundle that is not a kernel resource
\* carries kextStartAddrs[ModuleIndex] | 0xFFFF000000000000, its ID and Version.
C3_CatalogInDecodeOrder ==
    (KextDecoded /\ ~SomeOutOfRange /\ Finished) =>
        /\ pc = "returned"
        /\ err = "nil"
        /\ Len(Catalog) = Len(m.info.bundles)
        /\ \A k \in 1..Len(m.info.bundles) : Catalog[k] = ExpectedEntry(m.info.bundles[k])

C3_Witness ==
    /\ KextDecoded /\ pc = "returned"
    /\ Len(m.info.bundles) = 2
    /\ ~m.info.bundles[1].OSKernelResource /\ m.info.bundles[1].ModuleIndex = 1
    /\ ~m.info.bundles[2].OSKernelResource /\ m.info.bundles[2].ModuleIndex = 0
    /\ m.kmodStart.ptrs = <<(<<0, 0, 4660, 0>>), (<<0, 240, 1792, 16384>>)>>
    /\ Catalog[1].LoadAddress = <<65535, 240, 1792, 16384>>
    /\ Catalog[2].LoadAddress = <<65535, 0, 4660, 0>>

\* C4: without a (PRELINK_INFO, kmod_start) section the listing returns the
\* section-missing error, never reaches the property-list section and prints
\* nothing, whatever the bundle directory holds.
C4_MissingStartSection ==
    (op = "KextList" /\ opened /\ m.kmodStart.status = "absent") =>
        /\ pc \in {"start", "returned"}
        /\ prelink = <<>>
        /\ stdout = <<>>
        /\ pc = "returned" => err = "section __PRELINK_INFO.__kmod_start not found"

C4_Witness ==
    /\ op = "KextList" /\ opened /\ pc = "returned"
    /\ m.kmodStart.status = "absent"
    /\ m.info.status = "ok"
    /\ Len(m.info.bundles) = 2
    /\ \A k \in 1..2 : m.info.bundles[k].OSKernelResource

\* C5: a listing that opened the image closes it exactly once, when the call
\* ends, on every exit path; a listing whose open failed never closes it.
C5_ClosedExactlyOnce ==
    op = "KextList" =>
        /\ Finished => closeCount = (IF opened THEN 1 ELSE 0)
        /\ ~Finished => closeCount = 0

C5_Witness ==
    /\ op = "KextList" /\ opened
    /\ pc = "panicked"
    /\ closeCount = 1
    /\ Catalog # <<>>

\* the string at entry k of the (DATA_CONST, const) pointer array
ConstStr(k) == GetCString(WithTagMask(m.dconst.ptrs[k]))

ConstDeref(k) == m.dconst.ptrs[k] # Zero64 /\ ConstStr(k).err = "nil"

Min(S) == CHOOSE x \in S : \A y \in S : x <= y

\* the run the scanner is to return for the pointer array of the image
ExpectedOpts ==
    LET P == m.dconst.ptrs
        n == Len(P)
        Defaults == {k \in 1..n : ConstDeref(k) /\ ConstStr(k).str = "default"}
        d == Min(Defaults)
        Stops == {k \in d..n : P[k] # Zero64 /\ (ConstStr(k).err # "nil" \/ P[k][1] # 23)}
        e == IF Stops = {} THEN n ELSE Min(Stops)
        taken == SelectSeq([k \in 1..n |-> k], LAMBDA k : k >= d /\ k <= e /\ ConstDeref(k))
    IN  IF Defaults = {} THEN <<>>
        ELSE [j \in 1..Len(taken) |-> ConstStr(taken[j]).str]

\* C6: GetSandboxOpts returns, without error, the run that starts at the
\* first entry dereferencing to "default" and holds every dereferenced string
\* up to and including the first one whose tag is not 0x17, ending before the
\* first dereference failure or at the end of the array; it is empty when
\* "default" is never found.
C6_SandboxRun ==
    (op = "GetSandboxOpts" /\ pc = "returned" /\ m.dconst.status = "ok") =>
        /\ err = "nil"
        /\ bcOpts = ExpectedOpts

C6_Witness ==
    /\ op = "GetSandboxOpts" /\ pc = "returned"
    /\ m.dconst.ptrs = <<(<<23, 0, 0, 16>>), (<<23, 0, 0, 32>>), (<<3, 0, 0, 48>>), (<<23, 0, 0, 16>>)>>
    /\ bcOpts = <<"default", "read">>

\* the outcome of dereferencing entry k of the kmod_info pointer array
InfoOffset(k) == GetOffset(WithTagMask(m.kmodInfo.ptrs[k]))

InfoRead(k) == ReadAt(InfoOffset(k).off)

InfoGood(k) == InfoOffset(k).err = "nil" /\ InfoRead(k).err = "nil"

\* C7: getKextInfos returns either one record per pointer, the i-th decoded
\* from the i-th pointer, and no error, or an error and no record at all.
C7_AllOrNothing ==
    (op = "getKextInfos" /\ pc = "returned") =>
        IF m.kmodInfo.status = "ok" /\ \A k \in 1..Len(m.kmodInfo.ptrs) : InfoGood(k)
        THEN /\ err = "nil"
             /\ Len(infos) = Len(m.kmodInfo.ptrs)
             /\ \A k \in 1..Len(infos) :
                    /\ infos[k].ID = InfoRead(k).info.ID
                    /\ infos[k].Name = InfoRead(k).info.Name
        ELSE /\ err # "nil"
             /\ infos = <<>>

C7_Witness ==
    /\ op = "getKextInfos" /\ pc = "returned"
    /\ err # "nil"
    /\ Len(ptrs) = 3
    /\ idx = 2
    /\ InfoGood(1) /\ InfoGood(2) /\ ~InfoGood(3)

\* r is the 64-bit wrap-around sum of a and b
IsSum64(r, a, b) ==
    \E c1 \in {0, 1}, c2 \in {0, 1}, c3 \in {0, 1}, c4 \in {0, 1} :
        /\ \A i \in 1..4 : r[i] \in 0..65535
        /\ a[4] + b[4] = r[4] + 65536 * c4
        /\ a[3] + b[3] + c4 = r[3] + 65536 * c3
        /\ a[2] + b[2] + c3 = r[2] + 65536 * c2
        /\ a[1] + b[1] + c2 = r[1] + 65536 * c1

\* the low 30 bits of a raw kernelcache rebase pointer
RebaseTarget(v) == <<0, 0, v[3] % 16384, v[4]>>

PlainFields ==
    {"NextAddr", "InfoVersion", "ID", "Name", "Version", "ReferenceCount",
     "ReferenceListAddr", "Address", "Size", "HeaderSize"}

\* C8: for every 64-bit p, unTag(p) has its top 16 bits all ones and the low
\* 48 bits of p, also when the mask was applied to p first; unTag is
\* idempotent and the tag of unTag(p) is 0xFFFF.
C8_UnTag ==
    (op = "codec" /\ pc = "returned") =>
        /\ codec.untag = <<65535, p[2], p[3], p[4]>>
        /\ p[1] = 0 => codec.untagMasked = <<65535, p[2], p[3], p[4]>>
        /\ codec.untagTwice = codec.untag
        /\ codec.tagOfUntag = <<0, 0, 0, 65535>>

C8_Witness ==
    /\ op = "codec" /\ pc = "returned"
    /\ p = <<0, 43690, 65535, 21845>>
    /\ codec.untagMasked = <<65535, 43690, 65535, 21845>>

\* C9: in every record of getKextInfos, StartAddr and StopAddr are the rebase
\* target of the raw field plus the base address of the image, modulo 2^64,
\* and every other field is the decoded value.
C9_FixupOnlyStartStop ==
    op = "getKextInfos" =>
        \A k \in 1..Len(infos) :
            /\ IsSum64(infos[k].StartAddr, RebaseTarget(InfoRead(k).info.StartAddr), m.base)
            /\ IsSum64(infos[k].StopAddr, RebaseTarget(InfoRead(k).info.StopAddr), m.base)
            /\ \A f \in PlainFields : infos[k][f] = InfoRead(k).info[f]

C9_Witness ==
    /\ op = "getKextInfos" /\ pc = "returned" /\ err = "nil"
    /\ m.base = <<65535, 65535, 65535, 61440>>
    /\ Len(infos) = 2
    /\ infos[1].StartAddr = <<0, 0, 1, 4933>>
    /\ infos[1].Address = <<23, 240, 1792, 16384>>
    /\ infos[2].Name = "com.example.b"

\* C10: with a kmod_start section and no (PRELINK_INFO, info) section KextList
\* returns no error and no catalog entry, exactly as for a directory of zero
\* bundles; GetSandboxOpts returns an empty sequence and no error when the
\* (DATA_CONST, const) section is absent.
C10_MissingSectionIsSuccess ==
    /\ (op = "KextList" /\ opened /\ m.kmodStart.status = "ok" /\ Finished
            /\ (m.info.status = "absent" \/ (m.info.status = "ok" /\ m.info.bundles = <<>>))) =>
            /\ pc = "returned"
            /\ err = "nil"
            /\ Catalog = <<>>
    /\ (op = "GetSandboxOpts" /\ m.dconst.status = "absent" /\ Finished) =>
            /\ pc = "returned"
            /\ err = "nil"
            /\ bcOpts = <<>>

C10_Witness ==
    /\ op = "KextList" /\ opened /\ pc = "returned"
    /\ m.kmodStart.status = "ok" /\ Len(m.kmodStart.ptrs) = 2
    /\ m.info.status = "absent"
    /\ err = "nil"

====
